---------------------------- MODULE Spec2Model ----------------------------
(***************************************************************************)
(* Model of utils/data_generator.py: the DataGenerator minibatch feeder.   *)
(*                                                                         *)
(* The feeder holds data_dict (the loaded feature table), two index arrays *)
(* (train_audio_indexes, validate_audio_indexes), batch_size and a seeded  *)
(* random_state.  generate_train and generate_validate are Python          *)
(* generator functions: calling one only creates a generator object, its   *)
(* body runs from the first next() on, up to the next yield.               *)
(*                                                                         *)
(* numpy arrays are objects: heap maps an array reference to the array's   *)
(* dtype and contents, np.array(x) allocates a copy, shuffle mutates the   *)
(* array it is given in place.                                             *)
(*                                                                         *)
(* np.random.RandomState is a Mersenne Twister; here its state is a small  *)
(* multiplicative congruential generator.  What is kept from numpy is the  *)
(* algorithm that consumes it: shuffle is the Fisher-Yates loop            *)
(* "for i in reversed(range(1, n)): j = rk_interval(i); swap x[i], x[j]"   *)
(* and rk_interval is masked rejection sampling, so a shuffle is a         *)
(* deterministic function of the generator's state and advances it.        *)
(***************************************************************************)
EXTENDS Integers, Sequences, FiniteSets, TLC

VARIABLES
    data_dict,      \* self.data_dict: [audio_name, source_label], parallel rows
    heap,           \* array reference -> [dtype, data]
    batch_size,     \* self.batch_size
    seed,           \* the seed argument of __init__
    random_state,   \* self.random_state (shared by every stream of the feeder)
    streams,        \* generator objects created from the feeder
    meta,           \* meta['audio_name'] given to get_audio_indexes (train_meta
                    \* in a constructed feeder)
    result          \* get_audio_indexes: the returned array, once returned

vars == <<data_dict, heap, batch_size, seed, random_state, streams, meta, result>>

---------------------------------------------------------------------------
(* Bounds of the model *)

\* longest metadata list (so longest IndexSet) of a feeder
MaxLen == 3

\* largest batch_size
MaxBatch == 3

\* largest max_iteration argument
MaxIter == 3

\* requests (next() calls) made on one stream
MaxReq == 6

\* requests made on one stream when two streams are interleaved
MaxReqShared == 3

\* number of different seeds
NSeeds == 2

\* longest audio_name column and metadata list when index resolution is
\* checked on its own
MaxNames == 3

---------------------------------------------------------------------------
(* Values *)

Min(a, b) == IF a < b THEN a ELSE b

Range(f) == {f[i] : i \in DOMAIN f}

SeqsUpTo(S, n) == UNION {[1..k -> S] : k \in 0..n}

\* Python's None, and an int argument n, for the optional max_iteration
None == <<>>

SomeInt(n) == <<n>>

\* seed=1234 is the default of __init__
DefaultSeed == 1234

\* np.array(list): an empty list gives a float64 array, a list of np.int64
\* row positions an int64 array
np_array_of_list(list) ==
    [dtype |-> IF list = <<>> THEN "float64" ELSE "int64", data |-> list]

\* a reference bound to no array yet
Unallocated == [dtype |-> "none", data |-> <<>>]

---------------------------------------------------------------------------
(* get_audio_indexes *)

\* np.argwhere(names == name): the 0-based positions of the matches,
\* ascending
RECURSIVE argwhere(_, _, _)
argwhere(names, name, from) ==
    IF from > Len(names) THEN <<>>
    ELSE (IF names[from] = name THEN <<from - 1>> ELSE <<>>)
             \o argwhere(names, name, from + 1)

\* loct[-1, 0]: the last match instead of the first
LastOfLoct(loct) == loct[Len(loct)]

\* loct[0, 0]
FirstOfLoct(loct) == loct[1]

\* the loop of get_audio_indexes over meta['audio_name'], from entry k on
RECURSIVE audio_indexes_list(_, _, _)
audio_indexes_list(m, names, k) ==
    IF k > Len(m) THEN <<>>
    ELSE LET loct == argwhere(names, m[k], 1)
         IN  (IF Len(loct) > 0 THEN <<FirstOfLoct(loct)>> ELSE <<>>)
                 \o audio_indexes_list(m, names, k + 1)

get_audio_indexes(m, dd) == np_array_of_list(audio_indexes_list(m, dd.audio_name, 1))

---------------------------------------------------------------------------
(* random_state *)

RngMod == 31

RngMul == 3

\* RandomState(seed): the state the seed initialises
init_by_seed(sd) == 1 + (sd % (RngMod - 1))

\* rk_random: the next state, which is also the number drawn
rk_random(s) == (RngMul * s) % RngMod

\* the smallest 2^k - 1 that is >= max
RECURSIVE MaskFrom(_, _)
MaskFrom(max, mask) == IF mask >= max THEN mask ELSE MaskFrom(max, 2 * mask + 1)

\* rk_interval(max, state): a number in 0..max by masked rejection
RECURSIVE rk_interval(_, _)
rk_interval(max, s) ==
    LET s1 == rk_random(s)
        v  == s1 % (MaskFrom(max, 1) + 1)
    IN  IF v <= max THEN [value |-> v, state |-> s1] ELSE rk_interval(max, s1)

\* a swap that overwrites x[i] and never stores the value it held
SwapNoTemp(x, a, b) == [x EXCEPT ![a] = x[b]]

Swap(x, a, b) == [x EXCEPT ![a] = x[b], ![b] = x[a]]

\* the loop of RandomState.shuffle, from i down to 1 (0-based i and j)
RECURSIVE ShuffleFrom(_, _, _)
ShuffleFrom(x, i, s) ==
    IF i < 1 THEN [data |-> x, state |-> s]
    ELSE LET r == rk_interval(i, s)
         IN  ShuffleFrom(Swap(x, i + 1, r.value + 1), i - 1, r.state)

\* self.random_state.shuffle(x)
shuffle(x, s) == ShuffleFrom(x, Len(x) - 1, s)

---------------------------------------------------------------------------
(* Arrays *)

\* np.asarray(self.<field>): no copy, the same array object
np_asarray(h, src, dst) == [ref |-> src, heap |-> h]

\* np.array(self.<field>): a new array object at dst holding a copy of src
np_array(h, src, dst) == [ref |-> dst, heap |-> [h EXCEPT ![dst] = h[src]]]

\* audio_indexes[pointer: pointer + batch_size]
Slice(a, pointer, n) ==
    [dtype |-> a.dtype, data |-> SubSeq(a.data, pointer + 1, Min(pointer + n, Len(a.data)))]

\* table[batch_audio_indexes]: numpy refuses an index array that is not of
\* integer type (IndexError), also when it is empty
CanIndex(idx) == idx.dtype = "int64"

Gather(table, idx) == [i \in 1..Len(idx.data) |-> table[idx.data[i] + 1]]

\* the batch_data_dict built from batch_audio_indexes
BatchOf(dd, idx) == [rows |-> idx.data, audio_name |-> Gather(dd.audio_name, idx)]

\* a filter that keeps every index
get_source_indexes_unfiltered(indexes, dd, sources) == np_array_of_list(indexes.data)

\* a filter that keeps the rows whose source label is not in sources
get_source_indexes_complement(indexes, dd, sources) ==
    np_array_of_list(
        SelectSeq(indexes.data, LAMBDA index : dd.source_label[index + 1] \notin sources))

\* get_source_indexes(indexes, data_dict, sources)
get_source_indexes(indexes, dd, sources) ==
    np_array_of_list(
        SelectSeq(indexes.data, LAMBDA index : dd.source_label[index + 1] \in sources))

---------------------------------------------------------------------------
(* Generator objects *)

\* the generator objects a client holds; each owns the local variable
\* audio_indexes of its frame, an array reference of the same name
Streams == {"g1", "g2"}

TrainRef == "train_audio_indexes"

ValidateRef == "validate_audio_indexes"

NoStream ==
    [gen |-> "none", pc |-> "none", data_type |-> "", sources |-> {},
     max_iteration |-> None, audio_indexes |-> "", pointer |-> 0,
     iteration |-> 0, out |-> <<>>]

\* a generator can be resumed: created (body not started) or suspended at
\* its yield.  "done" is a return (StopIteration), "error" a raised exception.
Live(st) == st.pc \in {"created", "suspended"}

\* self.random_state.shuffle(audio_indexes): in place, on the array ref names
shuffle_in_place(h, ref, s) ==
    LET r == shuffle(h[ref].data, s)
    IN  [heap |-> [h EXCEPT ![ref].data = r.data], state |-> r.state]

\* generate_train, lines 101-105: run by the first next()
train_prologue(h, s, g) ==
    LET c  == np_array(h, TrainRef, g)
        sh == shuffle_in_place(c.heap, c.ref, s)
    IN  [heap |-> sh.heap, state |-> sh.state, ref |-> c.ref, pointer |-> 0]

\* "if pointer > len(audio_indexes)"
AtEndLate(pointer, a) == pointer > Len(a.data)

\* "if pointer >= len(audio_indexes)" of both loops
AtEnd(pointer, a) == pointer >= Len(a.data)

\* generate_train, lines 107-130: one pass of the loop, up to the yield
train_loop(h, s, ref, pointer, n, dd) ==
    LET reset == AtEnd(pointer, h[ref])
        sh    == IF reset THEN shuffle_in_place(h, ref, s) ELSE [heap |-> h, state |-> s]
        p     == IF reset THEN 0 ELSE pointer
        batch_audio_indexes == Slice(sh.heap[ref], p, n)
    IN  [heap |-> sh.heap, state |-> sh.state, pointer |-> p + n,
         raised |-> ~CanIndex(batch_audio_indexes),
         batch |-> BatchOf(dd, batch_audio_indexes)]

\* the selection with "else" in place of "elif data_type == 'validate'" and
\* no raise
validate_select_no_raise(h, g, data_type, sources, dd) ==
    IF data_type = "train" THEN
        LET c == np_array(h, TrainRef, g)
        IN  [raised |-> FALSE, ref |-> c.ref, heap |-> c.heap]
    ELSE
        LET c == np_array(h, ValidateRef, g)
        IN  [raised |-> FALSE, ref |-> c.ref,
             heap |-> [c.heap EXCEPT ![c.ref] = get_source_indexes(c.heap[c.ref], dd, sources)]]

\* generate_validate, lines 154-161: the array the stream walks, or the raise
validate_select(h, g, data_type, sources, dd) ==
    IF data_type = "train" THEN
        LET c == np_array(h, TrainRef, g)
        IN  [raised |-> FALSE, ref |-> c.ref, heap |-> c.heap]
    ELSE IF data_type = "validate" THEN
        LET c == np_array(h, ValidateRef, g)
        IN  [raised |-> FALSE, ref |-> c.ref,
             heap |-> [c.heap EXCEPT ![c.ref] = get_source_indexes(c.heap[c.ref], dd, sources)]]
    ELSE [raised |-> TRUE, ref |-> "", heap |-> h]

\* "if iteration > max_iteration"
ReachedMaxLate(iteration, max_iteration) ==
    max_iteration # None /\ iteration > max_iteration[1]

\* "if iteration == max_iteration": None equals no int
ReachedMax(iteration, max_iteration) ==
    max_iteration # None /\ max_iteration[1] = iteration

\* generate_validate, lines 166-172: whether the loop breaks
validate_break(iteration, max_iteration, pointer, a) ==
    ReachedMax(iteration, max_iteration) \/ AtEnd(pointer, a)

---------------------------------------------------------------------------
(* Operations *)

\* g = self.generate_train(): creates the generator, runs none of its body
generate_train(g) ==
    /\ streams[g].gen = "none"
    /\ streams' = [streams EXCEPT ![g] =
                      [NoStream EXCEPT !.gen = "generate_train", !.pc = "created"]]
    /\ UNCHANGED <<data_dict, heap, batch_size, seed, random_state, meta, result>>

\* g = self.generate_validate(data_type, sources, max_iteration)
generate_validate(g, data_type, sources, max_iteration) ==
    /\ streams[g].gen = "none"
    /\ streams' = [streams EXCEPT ![g] =
                      [NoStream EXCEPT !.gen = "generate_validate", !.pc = "created",
                                       !.data_type = data_type, !.sources = sources,
                                       !.max_iteration = max_iteration]]
    /\ UNCHANGED <<data_dict, heap, batch_size, seed, random_state, meta, result>>

\* next(g) on a training generator that has answered fewer than maxreq requests
next_train(g, maxreq) ==
    LET st  == streams[g]
        pro == IF st.pc = "created"
               THEN train_prologue(heap, random_state, g)
               ELSE [heap |-> heap, state |-> random_state,
                     ref |-> st.audio_indexes, pointer |-> st.pointer]
        r   == train_loop(pro.heap, pro.state, pro.ref, pro.pointer, batch_size, data_dict)
    IN  /\ st.gen = "generate_train"
        /\ Live(st)
        /\ Len(st.out) < maxreq
        /\ heap' = r.heap
        /\ random_state' = r.state
        /\ streams' = [streams EXCEPT ![g] =
                          [st EXCEPT !.audio_indexes = pro.ref,
                                     !.pointer = r.pointer,
                                     !.pc = IF r.raised THEN "error" ELSE "suspended",
                                     !.out = IF r.raised THEN @ ELSE Append(@, r.batch)]]
        /\ UNCHANGED <<data_dict, batch_size, seed, meta, result>>

\* next(g) on a validation generator
next_validate(g) ==
    LET st  == streams[g]
        pro == IF st.pc = "created"
               THEN validate_select(heap, g, st.data_type, st.sources, data_dict)
               ELSE [raised |-> FALSE, ref |-> st.audio_indexes, heap |-> heap]
        a   == pro.heap[pro.ref]
        batch_audio_indexes == Slice(a, st.pointer, batch_size)
    IN  /\ st.gen = "generate_validate"
        /\ Live(st)
        /\ heap' = pro.heap
        /\ streams' = [streams EXCEPT ![g] =
             IF pro.raised THEN [st EXCEPT !.pc = "error"]
             ELSE IF validate_break(st.iteration, st.max_iteration, st.pointer, a)
             THEN [st EXCEPT !.audio_indexes = pro.ref, !.pc = "done"]
             ELSE [st EXCEPT !.audio_indexes = pro.ref,
                             !.pointer = @ + batch_size,
                             !.iteration = @ + 1,
                             !.pc = "suspended",
                             !.out = Append(@, BatchOf(data_dict, batch_audio_indexes))]]
        /\ UNCHANGED <<data_dict, batch_size, seed, random_state, meta, result>>

\* self.get_audio_indexes(meta, self.data_dict)
resolve ==
    /\ result = Unallocated
    /\ result' = get_audio_indexes(meta, data_dict)
    /\ UNCHANGED <<data_dict, heap, batch_size, seed, random_state, streams, meta>>

---------------------------------------------------------------------------
(* Initial states: a feeder as __init__ leaves it *)

\* the feature table of the feeder specifications: three rows, recorded on
\* two devices
ExampleTable ==
    [audio_name |-> <<"a", "b", "c">>, source_label |-> <<"a", "b", "a">>]

\* names a metadata file may hold: the table's, and one with no features
MetaNames == {"a", "b", "c", "x"}

Metas == SeqsUpTo(MetaNames, MaxLen)

\* metadata lists of every length up to MaxLen, one per length
MetaOfLen(n) == [i \in 1..n |-> ExampleTable.audio_name[((i + 1) % 3) + 1]]

MetaPrefixes == {MetaOfLen(n) : n \in 0..MaxLen}

Seeds == {DefaultSeed + k : k \in 0..(NSeeds - 1)}

Devices == {"a", "b"}

DataTypes == {"train", "validate", "test"}

MaxIterations == {None} \cup {SomeInt(n) : n \in 0..MaxIter}

Constructed(dd, train_meta, validate_meta, n, sd) ==
    /\ data_dict = dd
    /\ heap = [ref \in {TrainRef, ValidateRef} \cup Streams |->
                 IF ref = TrainRef THEN get_audio_indexes(train_meta, dd)
                 ELSE IF ref = ValidateRef THEN get_audio_indexes(validate_meta, dd)
                 ELSE Unallocated]
    /\ batch_size = n
    /\ seed = sd
    /\ random_state = init_by_seed(sd)
    /\ streams = [g \in Streams |-> NoStream]
    /\ meta = train_meta
    /\ result = Unallocated

\* one training stream
InitTrain ==
    \E tm \in Metas, n \in 1..MaxBatch, sd \in Seeds :
        Constructed(ExampleTable, tm, MetaOfLen(3), n, sd)

NextTrain == generate_train("g1") \/ next_train("g1", MaxReq)

SpecTrain == InitTrain /\ [][NextTrain]_vars

\* one validation stream
InitValidate ==
    \E tm \in MetaPrefixes, vm \in Metas, n \in 1..MaxBatch :
        Constructed(ExampleTable, tm, vm, n, DefaultSeed)

NextValidate ==
    \/ \E dt \in DataTypes, src \in SUBSET Devices, mi \in MaxIterations :
           generate_validate("g1", dt, src, mi)
    \/ next_validate("g1")

SpecValidate == InitValidate /\ [][NextValidate]_vars

\* two streams of one feeder, their requests interleaved
Init ==
    \E tm \in MetaPrefixes, n \in 1..MaxBatch, sd \in Seeds :
        Constructed(ExampleTable, tm, MetaOfLen(3), n, sd)

Next ==
    \E g \in Streams :
        \/ generate_train(g)
        \/ \E dt \in {"train", "validate"}, src \in {{"a"}, Devices} :
               generate_validate(g, dt, src, None)
        \/ next_train(g, MaxReqShared)
        \/ next_validate(g)

Spec == Init /\ [][Next]_vars

\* index resolution on its own
InitIndex ==
    \E names \in SeqsUpTo({"a", "b"}, MaxNames), m \in SeqsUpTo({"a", "b", "c"}, MaxNames) :
        /\ data_dict = [audio_name |-> names, source_label |-> [i \in 1..Len(names) |-> "a"]]
        /\ meta = m
        /\ result = Unallocated
        /\ heap = [ref \in {TrainRef, ValidateRef} \cup Streams |-> Unallocated]
        /\ batch_size = 1
        /\ seed = DefaultSeed
        /\ random_state = init_by_seed(DefaultSeed)
        /\ streams = [g \in Streams |-> NoStream]

NextIndex == resolve

SpecIndex == InitIndex /\ [][NextIndex]_vars

---------------------------------------------------------------------------
(* Vocabulary of the properties *)

\* the row indices of a sequence of batches, concatenated
RECURSIVE RowsOf(_)
RowsOf(batches) ==
    IF batches = <<>> THEN <<>> ELSE Head(batches).rows \o RowsOf(Tail(batches))

Count(x, v) == Cardinality({i \in DOMAIN x : x[i] = v})

\* equal as multisets
SameBag(x, y) ==
    /\ Len(x) = Len(y)
    /\ \A v \in Range(x) \cup Range(y) : Count(x, v) = Count(y, v)

CeilDiv(a, b) == (a + b - 1) \div b

\* the feeder's IndexSets
TrainSet == heap[TrainRef].data

ValidateSet == heap[ValidateRef].data

\* the train IndexSet as __init__ resolved it from the train metadata
TrainSetAtInit == get_audio_indexes(meta, data_dict).data

G1 == streams["g1"]

G2 == streams["g2"]

\* batches in one epoch of the training stream
EpochLen == CeilDiv(Len(TrainSet), batch_size)

---------------------------------------------------------------------------
(* C1 *)

\* C1: in the training stream over a non-empty train IndexSet, every run of
\* ceil(L/B) consecutive batches that makes up an epoch (the first one
\* included) carries, as a multiset, exactly the train IndexSet.
C1_EpochIsIndexSet ==
    (G1.gen = "generate_train" /\ Len(TrainSet) >= 1) =>
        \A k \in 0..Len(G1.out) :
            (k + 1) * EpochLen <= Len(G1.out) =>
                SameBag(RowsOf(SubSeq(G1.out, k * EpochLen + 1, (k + 1) * EpochLen)),
                        TrainSet)

\* two complete epochs of 3 indices in batches of 2, the second in another
\* order than the first: a reshuffle has happened
C1_Witness ==
    /\ G1.gen = "generate_train"
    /\ Len(TrainSet) = 3
    /\ batch_size = 2
    /\ Len(G1.out) = 4
    /\ RowsOf(SubSeq(G1.out, 1, 2)) # RowsOf(SubSeq(G1.out, 3, 4))

---------------------------------------------------------------------------
(* C3 *)

\* C3: the training stream never ends and never fails, whatever the train
\* IndexSet and batch_size: it is never in the state of a generator that
\* returned or raised.
C3_NeverEndsOrFails ==
    G1.gen = "generate_train" => G1.pc \in {"created", "suspended"}

---------------------------------------------------------------------------
(* C9 *)

\* C9: in the training stream over a non-empty train IndexSet every batch
\* holds batch_size indices, except the last of an epoch, which holds
\* L mod B when that is not 0; no batch is empty; and the batches of the
\* current epoch are, in order, the part of the one current shuffle that lies
\* before the cursor (no batch mixes two shuffles, no reshuffle inside an
\* epoch).
C9_BatchShape ==
    (G1.gen = "generate_train" /\ Len(TrainSet) >= 1 /\ G1.pc = "suspended") =>
        LET L == Len(TrainSet)
            n == Len(G1.out)
            inEpoch == ((n - 1) % EpochLen) + 1
        IN  /\ n >= 1
            /\ \A i \in 1..n :
                   /\ Len(G1.out[i].rows) >= 1
                   /\ Len(G1.out[i].rows) =
                          IF i % EpochLen = 0 /\ L % batch_size # 0
                          THEN L % batch_size ELSE batch_size
            /\ RowsOf(SubSeq(G1.out, n - inEpoch + 1, n)) =
                   SubSeq(heap["g1"].data, 1, Min(G1.pointer, L))

\* a short last batch of an epoch followed by a full batch of the next one
C9_Witness ==
    /\ G1.gen = "generate_train"
    /\ Len(TrainSet) = 3
    /\ batch_size = 2
    /\ Len(G1.out) = 3
    /\ Len(G1.out[2].rows) = 1
    /\ Len(G1.out[3].rows) = 2

---------------------------------------------------------------------------
(* C2, C4, C5, C7: one validation stream *)

\* the IndexSet a validation stream is to walk, from the feeder's IndexSets
\* and the stream's arguments
Walked(st) ==
    IF st.data_type = "train" THEN TrainSet
    ELSE SelectSeq(ValidateSet, LAMBDA row : data_dict.source_label[row + 1] \in st.sources)

ValidMode(st) == st.gen = "generate_validate" /\ st.data_type \in {"train", "validate"}

\* min(max_iteration, ceil(L / batch_size)), max_iteration = None being no limit
ExpectedBatches(st) ==
    LET full == CeilDiv(Len(Walked(st)), batch_size)
    IN  IF st.max_iteration = None THEN full ELSE Min(st.max_iteration[1], full)

\* C2: the validation stream yields exactly min(max_iteration, ceil(L/B))
\* batches and then terminates: it never yields more, it has yielded that
\* many when it ends, and once it has yielded that many its cursor state
\* is the one that makes the next request end it.
C2_BatchCount ==
    ValidMode(G1) =>
        /\ G1.pc # "error"
        /\ Len(G1.out) <= ExpectedBatches(G1)
        /\ G1.pc = "done" => Len(G1.out) = ExpectedBatches(G1)
        /\ G1.pc = "suspended" =>
               /\ G1.iteration = Len(G1.out)
               /\ G1.pointer = Len(G1.out) * batch_size

\* max_iteration = 2 cuts a stream of 3 batches short
C2_Witness ==
    /\ ValidMode(G1)
    /\ G1.max_iteration = SomeInt(2)
    /\ Len(Walked(G1)) = 3
    /\ batch_size = 1
    /\ G1.pc = "done"
    /\ Len(G1.out) = 2

\* C4: with no max_iteration, the rows of all batches of a validation stream
\* are, in mode "validate", the validation IndexSet restricted to the rows
\* whose source label is in sources, in its order, and in mode "train" the
\* train IndexSet in its order; before the end they are a prefix of it.
C4_RowsAreFilteredSet ==
    (ValidMode(G1) /\ G1.max_iteration = None) =>
        LET rows == RowsOf(G1.out)
        IN  /\ Len(rows) <= Len(Walked(G1))
            /\ rows = SubSeq(Walked(G1), 1, Len(rows))
            /\ G1.pc = "done" => rows = Walked(G1)

\* a finished "validate" stream that dropped the row of device b out of the
\* middle of the validation IndexSet and kept the order of the rest
C4_Witness ==
    /\ G1.gen = "generate_validate"
    /\ G1.data_type = "validate"
    /\ G1.sources = {"a"}
    /\ G1.max_iteration = None
    /\ ValidateSet = <<2, 1, 0>>
    /\ G1.pc = "done"
    /\ RowsOf(G1.out) = <<2, 0>>

\* C5 as stated: calling generate_validate with another mode string fails
\* at once, so a stream with such a mode exists only as a failed one.
C5_CallFails ==
    (G1.gen = "generate_validate" /\ G1.data_type \notin {"train", "validate"}) =>
        G1.pc = "error"

\* C5 as amended: the call returns a generator; its first request raises,
\* before any batch is produced, and no batch is ever yielded.
C5_FirstRequestFails ==
    (G1.gen = "generate_validate" /\ G1.data_type \notin {"train", "validate"}) =>
        /\ G1.pc \in {"created", "error"}
        /\ G1.out = <<>>

\* the request on a stream of mode "test" has raised, with a non-empty
\* validation IndexSet and a filter that matches it
C5_Witness ==
    /\ G1.gen = "generate_validate"
    /\ G1.data_type = "test"
    /\ G1.sources = {"a", "b"}
    /\ Len(ValidateSet) = 3
    /\ G1.pc = "error"

\* C7: a "validate" stream with an empty source filter yields no batch and
\* ends on its first request.
C7_EmptyFilter ==
    (G1.gen = "generate_validate" /\ G1.data_type = "validate" /\ G1.sources = {}) =>
        /\ G1.out = <<>>
        /\ G1.pc \in {"created", "done"}

\* ended, over a validation IndexSet of three rows and with no max_iteration
C7_Witness ==
    /\ G1.gen = "generate_validate"
    /\ G1.data_type = "validate"
    /\ G1.sources = {}
    /\ G1.max_iteration = None
    /\ Len(ValidateSet) = 3
    /\ G1.pc = "done"

---------------------------------------------------------------------------
(* C6 *)

\* the metadata names that are in the feature table, in metadata order
Found == SelectSeq(meta, LAMBDA name : name \in Range(data_dict.audio_name))

\* the lowest row position holding name
LowestRow(name) ==
    CHOOSE p \in 0..(Len(data_dict.audio_name) - 1) :
        /\ data_dict.audio_name[p + 1] = name
        /\ \A q \in 0..(p - 1) : data_dict.audio_name[q + 1] # name

\* C6: get_audio_indexes returns one entry per metadata name found in the
\* table, in metadata order, each the lowest row position of that name; so
\* its length is the number of metadata entries found, at most len(meta).
C6_IndexResolution ==
    result # Unallocated =>
        /\ result.data = [i \in 1..Len(Found) |-> LowestRow(Found[i])]
        /\ Len(result.data) =
               Cardinality({i \in 1..Len(meta) : meta[i] \in Range(data_dict.audio_name)})
        /\ Len(result.data) <= Len(meta)

\* a table holding a name twice, a metadata list naming it after a name that
\* is not in the table
C6_Witness ==
    /\ data_dict.audio_name = <<"b", "a", "a">>
    /\ meta = <<"c", "a", "b">>
    /\ result.data = <<1, 0>>

---------------------------------------------------------------------------
(* C8, C10: two streams *)

\* a training stream run on its own from a fresh feeder: the batches of its
\* first k requests
RECURSIVE SoloLoop(_, _, _, _, _)
SoloLoop(h, s, ref, pointer, k) ==
    IF k = 0 THEN <<>>
    ELSE LET r == train_loop(h, s, ref, pointer, batch_size, data_dict)
         IN  <<r.batch>> \o SoloLoop(r.heap, r.state, ref, r.pointer, k - 1)

SoloTrain(k) ==
    LET fresh == [heap EXCEPT ![TrainRef].data = TrainSetAtInit]
        pro   == train_prologue(fresh, init_by_seed(seed), "g1")
    IN  SoloLoop(pro.heap, pro.state, pro.ref, pro.pointer, k)

\* a validation stream run on its own: the rows of its first k batches
SoloValidateRows(st, k) ==
    LET walked == IF st.data_type = "train" THEN TrainSetAtInit ELSE Walked(st)
    IN  SubSeq(walked, 1, Min(k * batch_size, Len(walked)))

OnItsOwn(g) ==
    LET st == streams[g]
    IN  /\ st.gen = "generate_train" => st.out = SoloTrain(Len(st.out))
        /\ st.gen = "generate_validate" =>
               RowsOf(st.out) = SoloValidateRows(st, Len(st.out))

Other(g) == IF g = "g1" THEN "g2" ELSE "g1"

\* the other stream has run no shuffle
NoShuffleBy(g) == streams[g].gen # "generate_train" \/ streams[g].pc = "created"

\* C8 as stated: the batches a stream yields are those it yields when the
\* other stream makes no request, under every interleaving.
C8_SameUnderEveryInterleaving == \A g \in Streams : OnItsOwn(g)

\* C8 as amended: cursor and index array are per stream, the random state is
\* the feeder's: a validation stream yields the same batches under every
\* interleaving, and so does a training stream as long as no other training
\* stream of the feeder has started.
C8_SameButForRandomState ==
    \A g \in Streams :
        (streams[g].gen = "generate_validate" \/ NoShuffleBy(Other(g))) => OnItsOwn(g)

\* a training stream that has reshuffled and a "train"-mode validation
\* stream, both part-way
C8_Witness ==
    /\ G1.gen = "generate_train"
    /\ Len(G1.out) = 3
    /\ G1.pointer = batch_size
    /\ Len(TrainSet) = 2
    /\ heap["g1"].data # TrainSet
    /\ G2.gen = "generate_validate"
    /\ G2.data_type = "train"
    /\ Len(G2.out) = 1

\* C10: no step changes the feeder's train IndexSet, validate IndexSet or
\* feature table.
C10_FeederDataUnchanged ==
    [][/\ heap'[TrainRef] = heap[TrainRef]
       /\ heap'[ValidateRef] = heap[ValidateRef]
       /\ data_dict' = data_dict]_vars

\* a training stream whose array is in another order than the train
\* IndexSet, beside a validation stream whose array is a filtered part of
\* the validate IndexSet
C10_Witness ==
    /\ G1.gen = "generate_train"
    /\ G1.pc = "suspended"
    /\ heap["g1"].data # TrainSet
    /\ G2.gen = "generate_validate"
    /\ G2.data_type = "validate"
    /\ G2.pc = "suspended"
    /\ Len(heap["g2"].data) < Len(ValidateSet)

=============================================================================
